---- MODULE Spec2Model ----
(***************************************************************************)
(* The todo backend in its two variants.                                   *)
(*   variant 1: src/unnamed/part_000 (no authentication; toggle, subtask)  *)
(*   variant 2: src/server.js        (register/login, JWT gate, userId)    *)
(* The Todo collection is a sequence of documents in natural (insertion)   *)
(* order; every document carries the store's own key `_id` next to the     *)
(* application-level `id` the routes match on.                             *)
(***************************************************************************)
EXTENDS Integers, Sequences, FiniteSets, TLC

VARIABLES
    todos,      \* the Todo collection, in natural order
    users,      \* the User collection (variant 2)
    now,        \* Date.now(), in clock ticks
    nextOid,    \* the next ObjectId the store assigns to a Todo
    nextUuid,   \* the next value uuidv4 returns
    toggles,    \* variant 1: the toggle requests awaiting todo.save()
    hist,       \* history of the writes to `completed`, per Todo _id
    req,        \* the request handled by the last step
    res,        \* its response
    steps       \* requests and clock ticks left in the behaviour

vars == <<todos, users, now, nextOid, nextUuid, toggles, hist, req, res, steps>>

----------------------------------------------------------------------------
(* Bounds *)

MaxStepsV1 == 4     \* variant 1: requests handled and clock ticks in one behaviour
MaxStepsV2 == 3     \* variant 2: the same
MaxTodos == 2       \* Todos created in one behaviour
MaxTime == 1        \* clock ticks in one behaviour
MaxToggles == 2     \* toggle requests that find their Todo, per Todo

----------------------------------------------------------------------------
(* Values *)

Undefined == "undefined"
Empty == <<>>

Priorities == {"low", "medium", "high"}

Has(body, f) == f \in DOMAIN body

Get(body, f) == IF Has(body, f) THEN body[f] ELSE Undefined

\* Mongoose's Boolean cast of a JSON value (given here in its string form).
CastableBoolean(v) == v \in {"true", "false", "1", "0", "yes", "no"}

CastBoolean(v) == v \in {"true", "1", "yes"}

----------------------------------------------------------------------------
(* Schema: defaults and validators *)

ValidSubtask(st) == st.title \notin {Undefined, ""}

ValidTodoV1(doc) ==
    /\ doc.title \notin {Undefined, ""}
    /\ doc.priority \in Priorities
    /\ doc.category \notin {Undefined, ""}
    /\ \A i \in 1..Len(doc.subtasks) : ValidSubtask(doc.subtasks[i])

\* A subtask of a request body as a subdocument: id defaults to uuidv4(),
\* completed to false.
NewSubtask(st, uuid) ==
    [id        |-> IF Has(st, "id") THEN st.id ELSE uuid,
     title     |-> Get(st, "title"),
     completed |-> IF Has(st, "completed") THEN CastBoolean(st.completed) ELSE FALSE]

NewSubtasks(body, uuid) ==
    IF Has(body, "subtasks")
    THEN [i \in 1..Len(body.subtasks) |-> NewSubtask(body.subtasks[i], uuid + i)]
    ELSE <<>>

UuidsUsed(body) == 1 + (IF Has(body, "subtasks") THEN Len(body.subtasks) ELSE 0)

\* new Todo({title, description, priority, category, tags, dueDate, subtasks})
NewTodoV1(body, oid, uuid, t) ==
    [_id         |-> oid,
     id          |-> uuid,
     title       |-> Get(body, "title"),
     description |-> Get(body, "description"),
     completed   |-> FALSE,
     priority    |-> Get(body, "priority"),
     category    |-> Get(body, "category"),
     tags        |-> IF Has(body, "tags") THEN body.tags ELSE <<>>,
     dueDate     |-> Get(body, "dueDate"),
     subtasks    |-> NewSubtasks(body, uuid),
     createdAt   |-> t,
     updatedAt   |-> t]

----------------------------------------------------------------------------
(* Queries *)

\* Index of the first document matching id, 0 when there is none.
FindOne(coll, id) ==
    IF \E i \in 1..Len(coll) : coll[i].id = id
    THEN CHOOSE i \in 1..Len(coll) :
            /\ coll[i].id = id
            /\ \A j \in 1..(i - 1) : coll[j].id # id
    ELSE 0

FindByOid(coll, oid) ==
    IF \E i \in 1..Len(coll) : coll[i]._id = oid
    THEN CHOOSE i \in 1..Len(coll) : coll[i]._id = oid
    ELSE 0

Remove(coll, i) ==
    [j \in 1..(Len(coll) - 1) |-> IF j < i THEN coll[j] ELSE coll[j + 1]]

\* The update document casts: a field the schema types as Boolean or Date
\* must cast, or the whole operation is rejected.
CastError(data) ==
    Has(data, "completed") /\ ~CastableBoolean(data.completed)

CastField(f, v) == IF f = "completed" THEN CastBoolean(v) ELSE v

\* { ...req.body, updatedAt: Date.now() }
UpdatedDataBodyWins(body, t) ==
    [f \in (DOMAIN body) \cup {"updatedAt"} |->
        IF f \in DOMAIN body THEN body[f] ELSE t]

UpdatedData(body, t) ==
    [f \in (DOMAIN body) \cup {"updatedAt"} |->
        IF f = "updatedAt" THEN t ELSE body[f]]

\* findOneAndUpdate's $set of the data's fields: strict mode drops the
\* fields the schema does not have; no validator runs.
ApplyUpdate(doc, data) ==
    [f \in DOMAIN doc |-> IF f \in DOMAIN data THEN CastField(f, data[f]) ELSE doc[f]]

----------------------------------------------------------------------------
(* Requests and responses *)

\* A word of the Authorization header: a JWT signed with SECRET (sig "HS256")
\* with its payload, or any other text.
Word(text) == [sig |-> text, id |-> 0, username |-> text, exp |-> 0]

\* The Authorization header, as the words a single space separates.
NoHeader == [present |-> FALSE, words |-> <<>>]
Header(words) == [present |-> TRUE, words |-> words]

\* req.user before the gate has set it.
NoUser == [id |-> 0, username |-> ""]

Request(route, id, subtaskId, body, authorization, user) ==
    [route |-> route, id |-> id, subtaskId |-> subtaskId, body |-> body,
     authorization |-> authorization, user |-> user]

Response(status, body) == [status |-> status, body |-> body]

NoRequest == Request("none", 0, 0, Empty, NoHeader, NoUser)
NoResponse == Response(0, Empty)

Error(msg) == [error |-> msg]

\* An id no Todo and no subtask has (uuids are drawn from 1 upwards).
NoSuchId == 0

TodoIds == {todos[i].id : i \in 1..Len(todos)}

\* The ids of the subtasks of the Todos with this id.
SubtaskIds(id) ==
    UNION {{todos[i].subtasks[j].id : j \in 1..Len(todos[i].subtasks)} :
           i \in {k \in 1..Len(todos) : todos[k].id = id}}

----------------------------------------------------------------------------
(* Variant 1: src/unnamed/part_000 *)

CreateBodiesV1 ==
    {[title |-> "t1", priority |-> "low", category |-> "c1",
      subtasks |-> <<[title |-> "s1"], [title |-> "s2"]>>],
     [title |-> "t1", priority |-> "urgent", category |-> "c1"],
     [title |-> "t1", category |-> "c1", id |-> NoSuchId, completed |-> "true"]}

UpdateBodiesV1 ==
    {Empty,
     [priority |-> "urgent"],
     [completed |-> "true"],
     [completed |-> "abc"],
     [title |-> "t2", updatedAt |-> 0]}
    \cup {[id |-> i] : i \in TodoIds}

SubtaskBodies(id) ==
    {Empty,
     [title |-> "s3", completed |-> "true"],
     [title |-> ""]}
    \cup {[id |-> i] : i \in SubtaskIds(id)}

\* History of a Todo's `completed`: its value before any toggle, the toggle
\* requests that found the Todo and those that saved, whether one ran
\* findOne while another awaited its save, and whether another request
\* wrote `completed` once a toggle had started.
NewHist == [base |-> FALSE, started |-> 0, finished |-> 0,
            overlapped |-> FALSE, void |-> FALSE]

\* Another request than a toggle writes `completed` of the Todo oid.
OtherWrite(h, oid, v) ==
    [h EXCEPT ![oid] = IF @.started = 0 THEN [@ EXCEPT !.base = v]
                       ELSE [@ EXCEPT !.void = TRUE]]

InFlight(oid) == \E k \in 1..Len(toggles) : toggles[k]._id = oid

Step == /\ steps > 0
        /\ steps' = steps - 1

\* POST /api/todos
CreateTodoV1(body) ==
    LET doc == NewTodoV1(body, nextOid, nextUuid, now) IN
    /\ Step
    /\ req' = Request("POST /api/todos", NoSuchId, NoSuchId, body, NoHeader, NoUser)
    /\ nextOid <= MaxTodos
    /\ IF ValidTodoV1(doc)
       THEN /\ todos' = Append(todos, doc)
            /\ nextOid' = nextOid + 1
            /\ nextUuid' = nextUuid + UuidsUsed(body)
            /\ hist' = hist @@ (nextOid :> NewHist)
            /\ res' = Response(201, doc)
       ELSE /\ res' = Response(400, Error("Validation error"))
            /\ UNCHANGED <<todos, nextOid, nextUuid, hist>>
    /\ UNCHANGED <<users, now, toggles>>

\* PUT /api/todos/:id
UpdateTodoV1(id, body) ==
    LET updatedData == UpdatedData(body, now)
        i == FindOne(todos, id) IN
    /\ Step
    /\ req' = Request("PUT /api/todos/:id", id, NoSuchId, body, NoHeader, NoUser)
    /\ IF CastError(updatedData)
       THEN /\ res' = Response(400, Error("Validation error"))
            /\ UNCHANGED <<todos, hist>>
       ELSE IF i = 0
       THEN /\ res' = Response(404, Error("Todo not found"))
            /\ UNCHANGED <<todos, hist>>
       ELSE LET updatedTodo == ApplyUpdate(todos[i], updatedData) IN
            /\ todos' = [todos EXCEPT ![i] = updatedTodo]
            /\ hist' = IF Has(updatedData, "completed")
                       THEN OtherWrite(hist, todos[i]._id, updatedTodo.completed)
                       ELSE hist
            /\ res' = Response(200, updatedTodo)
    /\ UNCHANGED <<users, now, nextOid, nextUuid, toggles>>

\* DELETE /api/todos/:id
DeleteTodoV1(id) ==
    LET i == FindOne(todos, id) IN
    /\ Step
    /\ req' = Request("DELETE /api/todos/:id", id, NoSuchId, Empty, NoHeader, NoUser)
    /\ IF i = 0
       THEN /\ res' = Response(404, Error("Todo not found"))
            /\ UNCHANGED todos
       ELSE /\ todos' = Remove(todos, i)
            /\ res' = Response(200, [message |-> "Todo deleted successfully"])
    /\ UNCHANGED <<users, now, nextOid, nextUuid, toggles, hist>>

\* todo.completed = !todo.completed
ToggleValueSet(completed) == TRUE

ToggleValue(completed) == ~completed

\* PATCH /api/todos/:id/toggle, up to the await of todo.save() (lines 129-135)

ToggleFind(id) ==
    LET i == FindOne(todos, id) IN
    /\ Step
    /\ req' = Request("PATCH /api/todos/:id/toggle", id, NoSuchId, Empty, NoHeader, NoUser)
    /\ i # 0 => hist[todos[i]._id].started < MaxToggles
    /\ IF i = 0
       THEN /\ res' = Response(404, Error("Todo not found"))
            /\ UNCHANGED <<toggles, hist>>
       ELSE LET todo == [todos[i] EXCEPT !.completed = ToggleValue(@),
                                         !.updatedAt = now] IN
            /\ toggles' = Append(toggles, todo)
            /\ hist' = [hist EXCEPT ![todo._id] =
                            [@ EXCEPT !.started = @ + 1,
                                      !.overlapped = @ \/ InFlight(todo._id)]]
            /\ res' = NoResponse
    /\ UNCHANGED <<todos, users, now, nextOid, nextUuid>>

\* ... and from there: save() validates the document in memory, writes the
\* paths it modified to the stored document of the same _id, and the
\* handler answers with the document in memory (lines 135-140).
ToggleSave(k) ==
    LET todo == toggles[k]
        i == FindByOid(todos, todo._id) IN
    /\ Step
    /\ req' = Request("PATCH /api/todos/:id/toggle", todo.id, NoSuchId, Empty, NoHeader, NoUser)
    /\ toggles' = Remove(toggles, k)
    /\ IF ~ValidTodoV1(todo) \/ i = 0
       THEN /\ res' = Response(500, Error("Server error"))
            /\ UNCHANGED <<todos, hist>>
       ELSE /\ todos' = [todos EXCEPT ![i].completed = todo.completed,
                                      ![i].updatedAt = todo.updatedAt]
            /\ hist' = [hist EXCEPT ![todo._id].finished = @ + 1]
            /\ res' = Response(200, todo)
    /\ UNCHANGED <<users, now, nextOid, nextUuid>>

\* todo.subtasks.find((st) => st.id === req.params.subtaskId)
FindSubtask(subtasks, subtaskId) == FindOne(subtasks, subtaskId)

\* Object.assign(subtask, req.body): the subdocument takes the fields its
\* schema has.
AssignSubtaskWhole(subtask, body) ==
    [f \in DOMAIN subtask |->
        IF f \in DOMAIN body THEN CastField(f, body[f])
        ELSE IF f = "completed" THEN FALSE ELSE subtask[f]]

AssignSubtask(subtask, body) ==
    [f \in DOMAIN subtask |->
        IF f \in DOMAIN body THEN CastField(f, body[f]) ELSE subtask[f]]

\* PUT /api/todos/:id/subtasks/:subtaskId
UpdateSubtask(id, subtaskId, body) ==
    LET i == FindOne(todos, id)
        j == IF i = 0 THEN 0 ELSE FindSubtask(todos[i].subtasks, subtaskId) IN
    /\ Step
    /\ req' = Request("PUT /api/todos/:id/subtasks/:subtaskId", id, subtaskId, body,
                      NoHeader, NoUser)
    /\ IF i = 0
       THEN /\ res' = Response(404, Error("Todo not found"))
            /\ UNCHANGED todos
       ELSE IF j = 0
       THEN /\ res' = Response(404, Error("Subtask not found"))
            /\ UNCHANGED todos
       ELSE LET todo == [todos[i] EXCEPT
                            !.subtasks[j] = AssignSubtask(@, body),
                            !.updatedAt = now] IN
            IF CastError(body) \/ ~ValidTodoV1(todo)
            THEN /\ res' = Response(400, Error("Validation error"))
                 /\ UNCHANGED todos
            ELSE /\ todos' = [todos EXCEPT ![i] = todo]
                 /\ res' = Response(200, todo)
    /\ UNCHANGED <<users, now, nextOid, nextUuid, toggles, hist>>

\* Date.now() moves on.
Tick ==
    /\ Step
    /\ now < MaxTime
    /\ now' = now + 1
    /\ req' = NoRequest
    /\ res' = NoResponse
    /\ UNCHANGED <<todos, users, nextOid, nextUuid, toggles, hist>>

\* The database outlives the process: the server starts on an empty Todo
\* collection or on one an earlier run left, here the Todo a first
\* POST /api/todos stored.
SeedBodyV1 ==
    [title |-> "t1", priority |-> "low", category |-> "c1",
     subtasks |-> <<[title |-> "s1"], [title |-> "s2"]>>]

InitV1 ==
    /\ \/ /\ todos = <<>>
          /\ nextOid = 1
          /\ nextUuid = 1
          /\ hist = <<>>
       \/ /\ todos = <<NewTodoV1(SeedBodyV1, 1, 1, 0)>>
          /\ nextOid = 2
          /\ nextUuid = 1 + UuidsUsed(SeedBodyV1)
          /\ hist = (1 :> NewHist)
    /\ users = {}
    /\ now = 0
    /\ toggles = <<>>
    /\ req = NoRequest
    /\ res = NoResponse
    /\ steps = MaxStepsV1

NextV1 ==
    \/ \E body \in CreateBodiesV1 : CreateTodoV1(body)
    \/ \E id \in TodoIds \cup {NoSuchId}, body \in UpdateBodiesV1 : UpdateTodoV1(id, body)
    \/ \E id \in TodoIds \cup {NoSuchId} : DeleteTodoV1(id)
    \/ \E id \in TodoIds \cup {NoSuchId} : ToggleFind(id)
    \/ \E k \in 1..Len(toggles) : ToggleSave(k)
    \/ \E id \in TodoIds \cup {NoSuchId} :
          \E subtaskId \in SubtaskIds(id) \cup {NoSuchId}, body \in SubtaskBodies(id) :
             UpdateSubtask(id, subtaskId, body)
    \/ Tick

SpecV1 == InitV1 /\ [][NextV1]_vars

----------------------------------------------------------------------------
(* Variant 1: the claims *)

Indices(coll) == 1..Len(coll)

\* C4: no two stored Todos have the same id.
C4_UniqueIds ==
    \A i, j \in Indices(todos) : i # j => todos[i].id # todos[j].id

\* C5: every stored Todo's priority is one of low, medium, high.
C5_PriorityInEnum ==
    \A i \in Indices(todos) : todos[i].priority \in {"low", "medium", "high"}

\* The Todo i is, after the step, what it was before but for the fields in
\* `changed`.
SameBut(i, changed) ==
    /\ Len(todos') = Len(todos)
    /\ \A k \in Indices(todos) : k # i => todos'[k] = todos[k]
    /\ DOMAIN todos'[i] = DOMAIN todos[i]
    /\ \A f \in (DOMAIN todos[i]) \ changed : todos'[i][f] = todos[i][f]

UpdateOkV1 == req'.route = "PUT /api/todos/:id" /\ res'.status = 200

UpdateFailedV1 == req'.route = "PUT /api/todos/:id" /\ res'.status # 200

UpdateNotFoundV1 ==
    /\ req'.route = "PUT /api/todos/:id"
    /\ \A i \in Indices(todos) : todos[i].id # req'.id
    /\ ~(Has(req'.body, "completed") /\ req'.body.completed = "abc")

TwoToggles(h) == h.started = 2 /\ h.finished = 2 /\ ~h.void

\* C8 as stated: once two Toggle requests on a Todo have both returned 200
\* and no other request wrote `completed`, the stored `completed` is what it
\* was before the two, however the two handlers' findOne and save steps
\* interleave.
C8_TwiceIsIdentity ==
    \A i \in Indices(todos) :
        TwoToggles(hist[todos[i]._id]) => todos[i].completed = hist[todos[i]._id].base

\* C8 as amended: under the same condition the stored `completed` is what
\* it was before the two exactly when the second request's findOne ran
\* after the first request's save; when both ran findOne before either
\* saved, both store the same value and `completed` ends negated.
C8_TwiceUnlessOverlapped ==
    \A i \in Indices(todos) :
        LET h == hist[todos[i]._id] IN
        TwoToggles(h) => (todos[i].completed = h.base <=> ~h.overlapped)

\* Two toggles of one Todo, one after the other, have both returned 200.
C8_Witness ==
    /\ req.route = "PATCH /api/todos/:id/toggle"
    /\ res.status = 200
    /\ \E i \in Indices(todos) :
          LET h == hist[todos[i]._id] IN
          TwoToggles(h) /\ ~h.overlapped /\ todos[i].completed = h.base

SubtaskRoute == req'.route = "PUT /api/todos/:id/subtasks/:subtaskId"

\* C10: a successful Update-subtask changes, in one Todo with the id P, one
\* subtask whose id was S, giving it the body's fields and keeping its
\* others, and sets that Todo's updatedAt; the Todo's other subtasks, its
\* other fields and every other Todo are unchanged and the response is the
\* whole Todo. When no Todo has the id P, or none of them has a subtask S,
\* the response is 404; every response but 200 leaves the collection as it
\* was.
C10_SubtaskFrame ==
    [][SubtaskRoute =>
        /\ res'.status = 200 =>
            \E i \in Indices(todos) : \E j \in Indices(todos[i].subtasks) :
                LET old == todos[i].subtasks
                    new == todos'[i].subtasks IN
                /\ todos[i].id = req'.id
                /\ old[j].id = req'.subtaskId
                /\ SameBut(i, {"subtasks", "updatedAt"})
                /\ todos'[i].updatedAt = now
                /\ Len(new) = Len(old)
                /\ \A l \in Indices(old) : l # j => new[l] = old[l]
                /\ \A f \in {"id", "title", "completed"} :
                      new[j][f] = IF Has(req'.body, f)
                                  THEN (IF f = "completed" THEN req'.body[f] = "true"
                                        ELSE req'.body[f])
                                  ELSE old[j][f]
                /\ res'.body = todos'[i]
        /\ res'.status # 200 => todos' = todos
        /\ (\A i \in Indices(todos) :
                \/ todos[i].id # req'.id
                \/ \A j \in Indices(todos[i].subtasks) :
                      todos[i].subtasks[j].id # req'.subtaskId)
            => res'.status = 404]_vars

\* An Update-subtask has given the second subtask a new title and
\* `completed`, and the first subtask is as it was created.
C10_Witness ==
    /\ req.route = "PUT /api/todos/:id/subtasks/:subtaskId"
    /\ res.status = 200
    /\ Has(req.body, "title")
    /\ Len(res.body.subtasks) = 2
    /\ res.body.subtasks[1] = [id |-> res.body.id + 1, title |-> "s1", completed |-> FALSE]
    /\ res.body.subtasks[2].title = "s3"
    /\ res.body.subtasks[2].completed
    /\ res.body \in {todos[i] : i \in Indices(todos)}

----------------------------------------------------------------------------
(* Variant 2: src/server.js *)

\* JSON values of the password field.
Str(s) == [type |-> "string", value |-> s]
Num(s) == [type |-> "number", value |-> s]
UndefinedValue == [type |-> "undefined", value |-> ""]

Password(body) == IF Has(body, "password") THEN body.password ELSE UndefinedValue

\* bcrypt.hash and bcrypt.compare reject data that is no string.
BcryptThrows(data) == data.type # "string"

BcryptHash(data) == [type |-> "bcrypt", value |-> data.value]

BcryptCompare(data, hash) == data.value = hash.value

\* expiresIn: "1h", in clock ticks
TokenTTL == 1

\* jwt.sign({ id: user._id, username: user.username }, SECRET, { expiresIn: "1h" })
JwtSign(user, t) ==
    [sig |-> "HS256", id |-> user._id, username |-> user.username, exp |-> t + TokenTTL]

\* jwt.verify(token, SECRET, ...): the signature is SECRET's and the token
\* has not expired.
JwtVerifyNoExpiry(token, t) == token.sig = "HS256"

JwtVerify(token, t) == token.sig = "HS256" /\ t < token.exp

\* req.headers.authorization?.split(" ")[1]; the empty word stands for
\* undefined as for "", both falsy.
BearerToken(authorization) ==
    IF authorization.present /\ Len(authorization.words) >= 2
    THEN authorization.words[2]
    ELSE Word("")

\* authenticate: the response it gives itself, or status 0 and req.user
\* when it calls next().
Authenticate(authorization, t) ==
    LET token == BearerToken(authorization) IN
    IF token.sig = ""
    THEN [status |-> 401, body |-> Error("Unauthorized"), user |-> NoUser]
    ELSE IF ~JwtVerify(token, t)
    THEN [status |-> 403, body |-> Error("Invalid token"), user |-> NoUser]
    ELSE [status |-> 0, body |-> Empty,
          user |-> [id |-> token.id, username |-> token.username]]

ValidTodoV2(doc) == ValidTodoV1(doc) /\ doc.userId # 0

\* new Todo({userId: req.user.id, title, description, priority, category,
\* tags, dueDate, subtasks})
NewTodoV2(body, userId, oid, uuid, t) ==
    [f \in (DOMAIN NewTodoV1(body, oid, uuid, t)) \cup {"userId"} |->
        IF f = "userId" THEN userId ELSE NewTodoV1(body, oid, uuid, t)[f]]

\* Index of the first document matching { id, userId }, 0 when there is none.
FindOneOwned(coll, id, userId) ==
    IF \E i \in 1..Len(coll) : coll[i].id = id /\ coll[i].userId = userId
    THEN CHOOSE i \in 1..Len(coll) :
            /\ coll[i].id = id /\ coll[i].userId = userId
            /\ \A j \in 1..(i - 1) : ~(coll[j].id = id /\ coll[j].userId = userId)
    ELSE 0

\* .sort({ createdAt: -1 }): by insertion, equal keys in natural order.
RECURSIVE InsertDesc(_, _)
InsertDesc(sorted, doc) ==
    IF sorted = <<>> THEN <<doc>>
    ELSE IF Head(sorted).createdAt >= doc.createdAt
    THEN <<Head(sorted)>> \o InsertDesc(Tail(sorted), doc)
    ELSE <<doc>> \o sorted

RECURSIVE SortDesc(_)
SortDesc(coll) ==
    IF coll = <<>> THEN <<>>
    ELSE InsertDesc(SortDesc(SubSeq(coll, 1, Len(coll) - 1)), coll[Len(coll)])

\* Todo.find({ userId: req.user.id })
FindAllUsers(coll, userId) == coll

FindByUser(coll, userId) ==
    LET keep(doc) == doc.userId = userId IN SelectSeq(coll, keep)

\* priorities.split(","): the query value is a sequence of priority names
\* and commas.
RECURSIVE Split(_)
Split(text) ==
    IF text = <<>> THEN <<"">>
    ELSE IF Head(text) = "," THEN <<"">> \o Split(Tail(text))
    ELSE LET rest == Split(Tail(text)) IN <<Head(text) \o Head(rest)>> \o Tail(rest)

PriorityArray(priorities) == IF priorities = <<>> THEN <<>> ELSE Split(priorities)

\* Todo.find({ userId: req.user.id, priority: { $in: priorityArray } })
FindByUserAndPriority(coll, userId, priorityArray) ==
    LET keep(doc) ==
            /\ doc.userId = userId
            /\ \E k \in 1..Len(priorityArray) : priorityArray[k] = doc.priority
    IN SelectSeq(coll, keep)

UserIds == {u._id : u \in users}

\* Tokens POST /api/login can have returned by now: each user's oldest and
\* latest.
Issuable == {JwtSign(u, t) : u \in users, t \in {0, now}}

TokenHeaders == {Header(<<Word("Bearer"), token>>) : token \in Issuable}

Headers ==
    {NoHeader, Header(<<Word("Bearer")>>), Header(<<Word("Bearer"), Word("garbage")>>)}
    \cup TokenHeaders

Usernames == {"alice", "bob"}

RegisterBodies ==
    {[username |-> u, password |-> Str("pw1")] : u \in Usernames}
    \cup {[username |-> "alice", password |-> Num("123")], [password |-> Str("pw1")]}

LoginBodies ==
    {[username |-> u, password |-> p] :
        u \in {"alice", "carol"}, p \in {Str("pw1"), Str("pw2"), Num("123")}}

CreateBodiesV2 ==
    {[title |-> "t1", priority |-> "low", category |-> "c1", userId |-> 0],
     [title |-> "t1", priority |-> "high", category |-> "c1"],
     [title |-> "t1", priority |-> "urgent", category |-> "c1"]}

UpdateBodiesV2 ==
    {[title |-> "t2", priority |-> "urgent"]}
    \cup {[id |-> i] : i \in TodoIds}
    \cup {[userId |-> u] : u \in UserIds}

PriorityQueries == {<<>>, <<"low", ",", "urgent">>}

\* POST /api/register
Register(body) ==
    /\ Step
    /\ req' = Request("POST /api/register", NoSuchId, NoSuchId, body, NoHeader, NoUser)
    /\ IF \/ BcryptThrows(Password(body))
          \/ ~Has(body, "username")
          \/ \E u \in users : u.username = body.username
       THEN /\ res' = Response(400, Error("Error registering user"))
            /\ UNCHANGED users
       ELSE /\ users' = users \cup {[_id |-> Cardinality(users) + 1,
                                      username |-> body.username,
                                      password |-> BcryptHash(body.password)]}
            /\ res' = Response(201, [message |-> "User registered successfully"])
    /\ UNCHANGED <<todos, now, nextOid, nextUuid, toggles, hist>>

\* The response of POST /api/login to a username and a password.
LoginResponse(username, password) ==
    IF ~\E u \in users : u.username = username
    THEN Response(400, Error("Invalid credentials"))
    ELSE LET user == CHOOSE u \in users : u.username = username IN
         IF BcryptThrows(password)
         THEN Response(500, Error("Error logging in"))
         ELSE IF ~BcryptCompare(password, user.password)
         THEN Response(400, Error("Invalid credentials"))
         ELSE Response(200, [token |-> JwtSign(user, now)])

\* POST /api/login
Login(body) ==
    /\ Step
    /\ req' = Request("POST /api/login", NoSuchId, NoSuchId, body, NoHeader, NoUser)
    /\ res' = LoginResponse(body.username, Password(body))
    /\ UNCHANGED <<todos, users, now, nextOid, nextUuid, toggles, hist>>

\* A todo route behind authenticate: the request as the handler sees it.
Gate(route, id, body, authorization) ==
    /\ Step
    /\ req' = Request(route, id, NoSuchId, body, authorization,
                      Authenticate(authorization, now).user)
    /\ UNCHANGED <<users, now, toggles, hist>>

\* ... and the gate's own answer, when it does not call next().
Rejected(authorization) ==
    /\ res' = Response(Authenticate(authorization, now).status,
                       Authenticate(authorization, now).body)
    /\ UNCHANGED <<todos, nextOid, nextUuid>>

Passes(authorization) == Authenticate(authorization, now).status = 0

\* GET /api/todos
ListTodosV2(authorization) ==
    LET user == Authenticate(authorization, now).user IN
    /\ Gate("GET /api/todos", NoSuchId, Empty, authorization)
    /\ IF ~Passes(authorization) THEN Rejected(authorization)
       ELSE /\ res' = Response(200, SortDesc(FindByUser(todos, user.id)))
            /\ UNCHANGED <<todos, nextOid, nextUuid>>

\* POST /api/todos
CreateTodoV2(body, authorization) ==
    LET user == Authenticate(authorization, now).user
        doc == NewTodoV2(body, user.id, nextOid, nextUuid, now) IN
    /\ nextOid <= MaxTodos
    /\ Gate("POST /api/todos", NoSuchId, body, authorization)
    /\ IF ~Passes(authorization) THEN Rejected(authorization)
       ELSE IF ValidTodoV2(doc)
       THEN /\ todos' = Append(todos, doc)
            /\ nextOid' = nextOid + 1
            /\ nextUuid' = nextUuid + UuidsUsed(body)
            /\ res' = Response(201, doc)
       ELSE /\ res' = Response(400, Error("Validation error"))
            /\ UNCHANGED <<todos, nextOid, nextUuid>>

\* PUT /api/todos/:id
UpdateTodoV2(id, body, authorization) ==
    LET user == Authenticate(authorization, now).user
        updatedData == UpdatedData(body, now)
        i == FindOneOwned(todos, id, user.id) IN
    /\ Gate("PUT /api/todos/:id", id, body, authorization)
    /\ IF ~Passes(authorization) THEN Rejected(authorization)
       ELSE IF CastError(updatedData)
       THEN /\ res' = Response(400, Error("Validation error"))
            /\ UNCHANGED <<todos, nextOid, nextUuid>>
       ELSE IF i = 0
       THEN /\ res' = Response(404, Error("Todo not found"))
            /\ UNCHANGED <<todos, nextOid, nextUuid>>
       ELSE /\ todos' = [todos EXCEPT ![i] = ApplyUpdate(@, updatedData)]
            /\ res' = Response(200, ApplyUpdate(todos[i], updatedData))
            /\ UNCHANGED <<nextOid, nextUuid>>

\* DELETE /api/todos/:id
DeleteTodoV2(id, authorization) ==
    LET user == Authenticate(authorization, now).user
        i == FindOneOwned(todos, id, user.id) IN
    /\ Gate("DELETE /api/todos/:id", id, Empty, authorization)
    /\ IF ~Passes(authorization) THEN Rejected(authorization)
       ELSE IF i = 0
       THEN /\ res' = Response(404, Error("Todo not found"))
            /\ UNCHANGED <<todos, nextOid, nextUuid>>
       ELSE /\ todos' = Remove(todos, i)
            /\ res' = Response(200, [message |-> "Todo deleted successfully"])
            /\ UNCHANGED <<nextOid, nextUuid>>

\* GET /api/todos/filter
FilterTodosV2(priorities, authorization) ==
    LET user == Authenticate(authorization, now).user IN
    /\ Gate("GET /api/todos/filter", NoSuchId, [priorities |-> priorities], authorization)
    /\ IF ~Passes(authorization) THEN Rejected(authorization)
       ELSE /\ res' = Response(200, SortDesc(FindByUserAndPriority(
                            todos, user.id, PriorityArray(priorities))))
            /\ UNCHANGED <<todos, nextOid, nextUuid>>

\* PATCH /api/todos/:id/toggle: src/server.js registers no such route, no
\* middleware answers and Express ends the request with its own 404.
ToggleTodoV2(id, authorization) ==
    /\ Step
    /\ req' = Request("PATCH /api/todos/:id/toggle", id, NoSuchId, Empty, authorization, NoUser)
    /\ res' = Response(404, Error("Cannot PATCH"))
    /\ UNCHANGED <<todos, users, now, nextOid, nextUuid, toggles, hist>>

\* The database outlives the process: the server starts on empty
\* collections, on the users two earlier POST /api/register left, or on
\* these and the Todo a POST /api/todos of the second user left.
SeedBodyV2 == [title |-> "t1", priority |-> "low", category |-> "c1"]

SeedUsers ==
    {[_id |-> 1, username |-> "alice", password |-> BcryptHash(Str("pw1"))],
     [_id |-> 2, username |-> "bob", password |-> BcryptHash(Str("pw1"))]}

InitV2 ==
    /\ \/ /\ users \in {{}, SeedUsers}
          /\ todos = <<>>
          /\ nextOid = 1
          /\ nextUuid = 1
       \/ /\ users = SeedUsers
          /\ todos = <<NewTodoV2(SeedBodyV2, 2, 1, 1, 0)>>
          /\ nextOid = 2
          /\ nextUuid = 1 + UuidsUsed(SeedBodyV2)
    /\ now = 0
    /\ toggles = <<>>
    /\ hist = <<>>
    /\ req = NoRequest
    /\ res = NoResponse
    /\ steps = MaxStepsV2

NextV2 ==
    \/ \E body \in RegisterBodies : Register(body)
    \/ \E body \in LoginBodies : Login(body)
    \/ \E a \in Headers : ListTodosV2(a)
    \/ \E body \in CreateBodiesV2, a \in Headers : CreateTodoV2(body, a)
    \/ \E id \in TodoIds \cup {NoSuchId}, body \in UpdateBodiesV2, a \in Headers :
          UpdateTodoV2(id, body, a)
    \/ \E id \in TodoIds \cup {NoSuchId}, a \in Headers : DeleteTodoV2(id, a)
    \/ \E priorities \in PriorityQueries, a \in Headers : FilterTodosV2(priorities, a)
    \/ \E id \in TodoIds, a \in TokenHeaders : ToggleTodoV2(id, a)
    \/ Tick

SpecV2 == InitV2 /\ [][NextV2]_vars

----------------------------------------------------------------------------
(* Variant 2: the claims *)

\* The request of the step carries a token that verifies: signed with
\* SECRET and not expired.
CarriesToken(r) ==
    /\ r.authorization.present
    /\ Len(r.authorization.words) >= 2
    /\ r.authorization.words[2].sig # ""

CarriesValidToken(r) ==
    /\ CarriesToken(r)
    /\ r.authorization.words[2].sig = "HS256"
    /\ now < r.authorization.words[2].exp

\* C1: an Update, Delete or Toggle carrying a valid token for user A and
\* the id of a Todo owned by another user B is answered 404 and leaves B's
\* Todo stored and unchanged.
C1_ForeignTodoNotFound ==
    [][(/\ req'.route \in {"PUT /api/todos/:id", "DELETE /api/todos/:id",
                           "PATCH /api/todos/:id/toggle"}
        /\ CarriesValidToken(req'))
       => \A i \in Indices(todos) :
            (todos[i].id = req'.id /\ todos[i].userId # req'.authorization.words[2].id)
            => /\ res'.status = 404
               /\ \E k \in Indices(todos') : todos'[k] = todos[i]]_vars

ListRoutes == {"GET /api/todos", "GET /api/todos/filter"}

\* The priorities a filter query names.
Requested(r) == {r.body.priorities[n] : n \in Indices(r.body.priorities)} \ {","}

\* The Todo is one the List or Filter request r asks for.
Wanted(r, doc) ==
    /\ doc.userId = r.user.id
    /\ r.route = "GET /api/todos/filter" => doc.priority \in Requested(r)

\* C2: a List or Filter response holds exactly the stored Todos whose userId
\* is the caller's (for Filter: and whose priority the query names, an empty
\* query giving none), each once, by createdAt descending.
C2_ListIsCallersTodos ==
    (req.route \in ListRoutes /\ res.status = 200) =>
        /\ \A k \in Indices(res.body) :
              \E i \in Indices(todos) : todos[i] = res.body[k] /\ Wanted(req, todos[i])
        /\ \A i \in Indices(todos) :
              Wanted(req, todos[i]) =>
                  Cardinality({k \in Indices(res.body) : res.body[k]._id = todos[i]._id}) = 1
        /\ \A k \in 1..(Len(res.body) - 1) :
              res.body[k].createdAt >= res.body[k + 1].createdAt

\* A List has answered its caller with the caller's Todo while another
\* user's Todo is stored.
C2_Witness ==
    /\ req.route = "GET /api/todos"
    /\ res.status = 200
    /\ Len(res.body) = 1
    /\ Len(todos) = 2
    /\ \E i \in Indices(todos) : todos[i].userId # req.user.id

\* C3: Create stores the caller's identifier as userId whatever the body
\* says, and no request changes the userId of a stored Todo.
C3_OwnerNeverChanges ==
    [][/\ (req'.route = "POST /api/todos" /\ res'.status = 201)
            => res'.body.userId = req'.user.id
       /\ \A i \in Indices(todos), k \in Indices(todos') :
            todos'[k]._id = todos[i]._id => todos'[k].userId = todos[i].userId]_vars

TodoRoutesV2 ==
    {"GET /api/todos", "POST /api/todos", "PUT /api/todos/:id", "DELETE /api/todos/:id",
     "GET /api/todos/filter"}

\* C6: on every todo route a request without an Authorization header (or
\* with one that has no second word) is answered 401, one whose token is
\* malformed or expired 403, in both cases with the collection unchanged
\* and no handler's response; any other response comes with a token that
\* verifies, whose id and username are the caller identity.
C6_AuthGate ==
    [][req'.route \in TodoRoutesV2 =>
        /\ ~req'.authorization.present => res'.status = 401
        /\ ~CarriesToken(req') => res'.status = 401
        /\ (CarriesToken(req') /\ ~CarriesValidToken(req')) => res'.status = 403
        /\ res'.status \in {401, 403} =>
              /\ todos' = todos
              /\ req'.user = NoUser
              /\ ~CarriesValidToken(req')
        /\ res'.status \notin {401, 403} =>
              /\ CarriesValidToken(req')
              /\ req'.user = [id |-> req'.authorization.words[2].id,
                              username |-> req'.authorization.words[2].username]]_vars

\* A Delete of a stored Todo with its owner's expired token has been
\* answered 403.
C6_Witness ==
    /\ req.route = "DELETE /api/todos/:id"
    /\ res.status = 403
    /\ CarriesToken(req)
    /\ req.authorization.words[2].sig = "HS256"
    /\ \E i \in Indices(todos) :
          todos[i].id = req.id /\ todos[i].userId = req.authorization.words[2].id

\* C7: for every submitted password, Login answers a username no user has
\* and a username whose password does not match with the same status and
\* the same body, and with no token.
C7_LoginIndistinguishable ==
    (/\ req.route = "POST /api/login"
     /\ \A u \in users :
           u.username = req.body.username =>
               ~(req.body.password.type = "string"
                 /\ req.body.password.value = u.password.value))
    => res = Response(400, Error("Invalid credentials"))

====
